---------------------------- MODULE Spec2Model ----------------------------
(***************************************************************************)
(* A model of secexec (src/src/secexec/secexec.py): SecExec.execute and    *)
(* SecExec.aexecute, the textual operator scan they start with, the        *)
(* bashlex parse of what is left, and the command and pipeline node        *)
(* evaluators with the processes and temporary files they create.          *)
(*                                                                         *)
(* Text (command strings, process output, diagnostics) is a sequence of    *)
(* one-character strings; a fixed diagnostic prefix is one element.        *)
(***************************************************************************)
EXTENDS Integers, Sequences, FiniteSets, TLC

(***************************************************************************)
(* Python str operations used by the engine.                               *)
(***************************************************************************)

\* The characters str.strip() removes.
Whitespace == {" ", "\n", "\t"}

\* sub occurs in s at position i (1-based).
MatchAt(s, sub, i) ==
    /\ i >= 1
    /\ i + Len(sub) - 1 <= Len(s)
    /\ \A k \in 1..Len(sub) : s[i + k - 1] = sub[k]

\* Position of the first occurrence of sub in s from position i on, 0 when
\* there is none.
RECURSIVE FindFrom(_, _, _)
FindFrom(s, sub, i) ==
    IF i + Len(sub) - 1 > Len(s) THEN 0
    ELSE IF MatchAt(s, sub, i) THEN i
    ELSE FindFrom(s, sub, i + 1)

\* Python: s.find(sub) + 1
Find(s, sub) == FindFrom(s, sub, 1)

\* Python: sub in s
Contains(s, sub) == Find(s, sub) # 0

\* Python: s.strip()
Strip(s) ==
    LET keep == {i \in 1..Len(s) : s[i] \notin Whitespace}
    IN  IF keep = {} THEN <<>>
        ELSE LET lo == CHOOSE i \in keep : \A j \in keep : i <= j
                 hi == CHOOSE i \in keep : \A j \in keep : j <= i
             IN  SubSeq(s, lo, hi)

\* A split that finds no occurrence of sep: s as its only piece.
SplitWhole(s, sep) == <<s>>

\* Python: s.split(sep), sep non-empty: the pieces between the
\* non-overlapping occurrences of sep, found left to right.
RECURSIVE Split(_, _)
Split(s, sep) ==
    LET i == Find(s, sep)
    IN  IF i = 0 THEN <<s>>
        ELSE <<SubSeq(s, 1, i - 1)>> \o Split(SubSeq(s, i + Len(sep), Len(s)), sep)

\* Python: s.replace(old, new), old non-empty.
RECURSIVE Replace(_, _, _)
Replace(s, old, new) ==
    LET i == Find(s, old)
    IN  IF i = 0 THEN s
        ELSE SubSeq(s, 1, i - 1) \o new
                 \o Replace(SubSeq(s, i + Len(old), Len(s)), old, new)

\* Python: sep.join(items)
RECURSIVE Join(_, _)
Join(items, sep) ==
    IF items = <<>> THEN <<>>
    ELSE IF Len(items) = 1 THEN items[1]
    ELSE items[1] \o sep \o Join(Tail(items), sep)

\* bytes.decode("utf-8", errors="replace"): a byte that is no valid UTF-8
\* (written "\\xff" here) becomes the replacement character.
Decode(b) == [i \in 1..Len(b) |-> IF b[i] = "\\xff" THEN "\\ufffd" ELSE b[i]]


(***************************************************************************)
(* The parser, bashlex.parse, as far as the engine's inputs use it: words  *)
(* separated by blanks, single-quoted text, redirections and the pipe      *)
(* operator.  The operators && || ; never reach it: execute splits its     *)
(* input at them first.  A word's text is given with its quotes removed.   *)
(***************************************************************************)

\* Characters that end a word and are not part of one when unquoted.
Metachars == {"|", "&", ";", "(", ")"}

\* The characters that begin a redirection when unquoted.
RedirChars == {">", "<"}

WordTok(w) == [k |-> "word", w |-> w]
PipeTok == [k |-> "pipe", w |-> <<>>]
\* A redirection operator, and the redirect part of a command: its target.
RedirOpTok == [k |-> "redirop", w |-> <<>>]
RedirTok(w) == [k |-> "redirect", w |-> w]

\* The tokens of a word being read: cur when inword, nothing otherwise.
Flush(toks, cur, inword) == IF inword THEN Append(toks, WordTok(cur)) ELSE toks

\* The tokenizer from position i on; ok is FALSE for text bashlex refuses
\* (an unterminated quote, a metacharacter other than the pipe).
RECURSIVE LexFrom(_, _, _, _, _, _)
LexFrom(s, i, cur, inword, quoted, toks) ==
    IF i > Len(s)
    THEN IF quoted THEN [ok |-> FALSE, toks |-> <<>>]
         ELSE [ok |-> TRUE, toks |-> Flush(toks, cur, inword)]
    ELSE LET ch == s[i]
         IN  IF quoted
             THEN IF ch = "'"
                  THEN LexFrom(s, i + 1, cur, TRUE, FALSE, toks)
                  ELSE LexFrom(s, i + 1, Append(cur, ch), TRUE, TRUE, toks)
             ELSE IF ch = "'"
                  THEN LexFrom(s, i + 1, cur, TRUE, TRUE, toks)
             ELSE IF ch \in Whitespace
                  THEN LexFrom(s, i + 1, <<>>, FALSE, FALSE, Flush(toks, cur, inword))
             ELSE IF ch = "|"
                  THEN LexFrom(s, i + 1, <<>>, FALSE, FALSE,
                               Append(Flush(toks, cur, inword), PipeTok))
             ELSE IF ch \in RedirChars
                  THEN LexFrom(s, i + 1, <<>>, FALSE, FALSE,
                               Append(Flush(toks, cur, inword), RedirOpTok))
             ELSE IF ch \in Metachars
                  THEN [ok |-> FALSE, toks |-> <<>>]
             ELSE LexFrom(s, i + 1, Append(cur, ch), TRUE, FALSE, toks)

\* The parts of each command of a token sequence, the pipes separating
\* them: a word part for a word, a redirect part for a redirection operator
\* and the word after it.  A redirection operator without a word after it is
\* a syntax error: an empty command stands for it.
RECURSIVE Commands(_, _, _)
Commands(toks, cur, done) ==
    IF toks = <<>> THEN Append(done, cur)
    ELSE IF Head(toks).k = "pipe"
         THEN Commands(Tail(toks), <<>>, Append(done, cur))
    ELSE IF Head(toks).k = "redirop"
         THEN IF Len(toks) >= 2 /\ toks[2].k = "word"
              THEN Commands(Tail(Tail(toks)), Append(cur, RedirTok(toks[2].w)), done)
              ELSE <<<<>>>>
         ELSE Commands(Tail(toks), Append(cur, Head(toks)), done)

\* The node for the commands cs of a tokenized string.
NodeOf(ok, cs) ==
    IF ~ok \/ \E i \in 1..Len(cs) : cs[i] = <<>>
    THEN [ok |-> FALSE, kind |-> "error", parts |-> <<>>]
    ELSE IF Len(cs) = 1
         THEN [ok |-> TRUE, kind |-> "command", parts |-> cs[1]]
         ELSE [ok |-> TRUE, kind |-> "pipeline", parts |-> cs]

\* The node for a tokenizer result.
NodeOfTokens(lx) == NodeOf(lx.ok, Commands(lx.toks, <<>>, <<>>))

\* bashlex.parse(command_str): a command node (parts: its word and redirect
\* parts) or a pipeline node (parts: its command nodes), or a ParsingError
\* (ok FALSE).
Parse(s) == NodeOfTokens(LexFrom(s, 1, <<>>, FALSE, FALSE, <<>>))

(***************************************************************************)
(* The host: which names are executables, and what each process does.      *)
(***************************************************************************)

\* Program names found on the search path: t (true), x (fails with status 2
\* and writes to both streams), e (echo), c (cat), s (sleep) and bash.  n is
\* on no path.
OnPath == {<<"t">>, <<"x">>, <<"e">>, <<"c">>, <<"s">>, <<"b", "a", "s", "h">>}

\* shutil.which(name): the executable's full path, <<>> for None.
Which(name) == IF name \in OnPath THEN <<"/bin/">> \o name ELSE <<>>

\* The directories the host has.
Dirs == {<<"/", "d">>}

\* The program a process runs: argv[0] as a name or as which's full path.
Program(argv) == IF argv[1] # <<>> /\ argv[1][1] = "/bin/" THEN Tail(argv[1]) ELSE argv[1]


VARIABLES
    command_str,  \* the caller's command string
    env,          \* the caller's env mapping, in iteration order: <<[k, v], ...>>
    cwd,          \* the caller's cwd argument: <<>> for None, or a directory path
    written,      \* how the caller wrote command_str: its commands and operators
    pc,           \* "ready" before the call, "returned" after it; inside a call taken
                  \* step by step: "called", "looping", "returning"
    mode,         \* "none", then "execute" or "aexecute": the entry point called
    result,       \* the returned triple [stdout, stderr, rc]
    log,          \* what the call did to the host, in order
    tmp_free,     \* how many temporary files the host has room for at a time
    deadline,     \* the time the caller allows the call, in ticks: 0 for no limit
    stack,        \* the calls of execute / aexecute inside a loop over parts
    arg,          \* the command_str of the call that has just been made
    ret,          \* the value the call that has just ended returns
    calls         \* how many calls the call has made on a part

vars == <<command_str, env, cwd, written, pc, mode, result, log, tmp_free, deadline,
          stack, arg, ret, calls>>

NL == <<"\n">>
SP == <<" ">>

\* The operators of a command string.
AndOp == <<"&", "&">>
OrOp == <<"|", "|">>
SeqOp == <<";">>
PipeOp == <<"|">>

NotFoundMsg(name) == <<"Command not found: ">> \o name

\* What bash writes for a name on no path.
ShellNotFoundMsg(name) == <<"bash: line 1: ">> \o name \o <<": command not found", "\n">>

\* What a process other than bash does, by program: its exit status and what
\* it writes, given its arguments and the bytes on its standard input.
Run(argv, stdin) ==
    LET prog == Program(argv)
    IN  IF prog = <<"t">> THEN [rc |-> 0, out |-> <<>>, err |-> <<>>]
        ELSE IF prog = <<"x">> THEN [rc |-> 2, out |-> <<"o", "\n">>, err |-> <<"!", "\n">>]
        ELSE IF prog = <<"e">> THEN [rc |-> 0, out |-> Join(Tail(argv), SP) \o NL, err |-> <<>>]
        ELSE IF prog = <<"s">> THEN [rc |-> 0, out |-> <<>>, err |-> <<>>]
        ELSE [rc |-> 0, out |-> stdin, err |-> <<>>]

\* How long a process runs before it exits, in ticks: s sleeps for two, the
\* other programs take no time.
Duration(argv) == IF Program(argv) = <<"s">> THEN 2 ELSE 0

(***************************************************************************)
(* The shell's reading of a command string as written: its command tree    *)
(* (; binds loosest, then && and || from left to right, then the pipe)     *)
(* with left evaluated first, && and || short-circuiting, stdout and       *)
(* stderr in evaluation order.  It is what bash -c does with the string,   *)
(* and what the specification's List Evaluator and Pipeline Builder ask.   *)
(***************************************************************************)

\* The value of variable name in the caller's env, empty when it has none.
Lookup(name) ==
    IF \E i \in 1..Len(env) : env[i].k = name
    THEN env[CHOOSE i \in 1..Len(env) : env[i].k = name].v
    ELSE <<>>

\* The name a variable word refers to: $NAME or ${NAME}.
VarName(w) == IF Len(w) >= 2 /\ w[2] = "{" THEN SubSeq(w, 3, Len(w) - 1) ELSE Tail(w)

\* The one argument a written word stands for.
WordArg(word) ==
    IF ~word.q /\ word.w # <<>> /\ word.w[1] = "$" THEN Lookup(VarName(word.w)) ELSE word.w

\* The argv a written command stands for: one element per word.
ArgvOf(cmd) == [i \in 1..Len(cmd) |-> WordArg(cmd[i])]

\* The position of the last operator of ops that is in set, 0 when none is.
LastOp(ops, set) ==
    IF \E i \in 1..Len(ops) : ops[i] \in set
    THEN CHOOSE i \in 1..Len(ops) :
            /\ ops[i] \in set
            /\ \A j \in (i + 1)..Len(ops) : ops[j] \notin set
    ELSE 0

\* The position of the operator at the root of the command tree.
RootOp(ops) ==
    IF LastOp(ops, {SeqOp}) # 0 THEN LastOp(ops, {SeqOp})
    ELSE IF LastOp(ops, {AndOp, OrOp}) # 0 THEN LastOp(ops, {AndOp, OrOp})
    ELSE Len(ops)

\* A stage of a pipeline with real pipes, after the stages before it: the
\* stage reads what the stage before it wrote (p is what it then does); a
\* name on no path writes nothing and counts as status 127.  sh: the
\* diagnostics are the shell's own.
StageRan(before, argv, p) ==
    [rc |-> p.rc, out |-> p.out, err |-> before.err \o p.err,
     spawns |-> Append(before.spawns, argv)]

StageAfter(before, argv, sh) ==
    IF argv[1] \in OnPath
    THEN StageRan(before, argv, Run(argv, before.out))
    ELSE [rc |-> 127, out |-> <<>>,
          err |-> before.err \o (IF sh THEN ShellNotFoundMsg(argv[1])
                                       ELSE NotFoundMsg(argv[1])),
          spawns |-> before.spawns]

\* Stages 1..i of the pipeline cmds.
RECURSIVE ShellStage(_, _, _)
ShellStage(cmds, i, sh) ==
    StageAfter(IF i = 1 THEN [rc |-> 0, out |-> <<>>, err |-> <<>>, spawns |-> <<>>]
               ELSE ShellStage(cmds, i - 1, sh),
               ArgvOf(cmds[i]), sh)

\* Left and right both evaluated: right's exit code, the outputs in order.
Both(l, r) ==
    [rc |-> r.rc, out |-> l.out \o r.out, err |-> l.err \o r.err,
     spawns |-> l.spawns \o r.spawns]

\* The list l op r: && and || evaluate r or not by l's exit code.
ListOf(op, l, r) ==
    IF op = AndOp THEN (IF l.rc = 0 THEN Both(l, r) ELSE l)
    ELSE IF op = OrOp THEN (IF l.rc # 0 THEN Both(l, r) ELSE l)
    ELSE Both(l, r)

\* The command tree of (cmds, ops) evaluated by the shell's rules: exit code,
\* stdout, stderr, and the argv of the commands run, in order.
RECURSIVE ShellEval(_, _, _)
ShellEvalAt(cmds, ops, k, sh) ==
    ListOf(ops[k],
           ShellEval(SubSeq(cmds, 1, k), SubSeq(ops, 1, k - 1), sh),
           ShellEval(SubSeq(cmds, k + 1, Len(cmds)), SubSeq(ops, k + 1, Len(ops)), sh))

ShellEval(cmds, ops, sh) ==
    IF ops = <<>> \/ ops[RootOp(ops)] = PipeOp THEN ShellStage(cmds, Len(cmds), sh)
    ELSE ShellEvalAt(cmds, ops, RootOp(ops), sh)

\* A list of operands already evaluated (items), joined by the list
\* operators ops: the operands the short-circuit rules leave out contribute
\* nothing.
RECURSIVE ListEval(_, _)
ListEvalAt(items, ops, k) ==
    ListOf(ops[k],
           ListEval(SubSeq(items, 1, k), SubSeq(ops, 1, k - 1)),
           ListEval(SubSeq(items, k + 1, Len(items)), SubSeq(ops, k + 1, Len(ops))))

ListEval(items, ops) ==
    IF ops = <<>> THEN items[1] ELSE ListEvalAt(items, ops, RootOp(ops))

\* The shell's reading of a string written with commands lo..hi in
\* parentheses and list operators outside them: the group is one operand,
\* evaluated as a command string of its own.
GroupedEval(cmds, ops, lo, hi, sh) ==
    ListEval([i \in 1..(Len(cmds) - (hi - lo)) |->
                 IF i < lo THEN ShellEval(<<cmds[i]>>, <<>>, sh)
                 ELSE IF i = lo
                      THEN ShellEval(SubSeq(cmds, lo, hi), SubSeq(ops, lo, hi - 1), sh)
                 ELSE ShellEval(<<cmds[i + (hi - lo)]>>, <<>>, sh)],
             SubSeq(ops, 1, lo - 1) \o SubSeq(ops, hi, Len(ops)))

\* The shell's reading of a string as written w, with or without a group.
ShellOf(w, sh) ==
    IF "group" \in DOMAIN w
    THEN GroupedEval(w.cmds, w.ops, w.group[1], w.group[2], sh)
    ELSE ShellEval(w.cmds, w.ops, sh)

\* What a process has done: its exit status and what it wrote.
Outcome(r) == [rc |-> r.rc, out |-> r.out, err |-> r.err]

\* What a process does.  bash -c is only ever given command_str itself (a
\* part of a string with both parentheses is never reached: the whole string
\* has them too), so its outcome is the shell's reading of the string as
\* written.
Proc(argv, stdin) ==
    IF Program(argv) = <<"b", "a", "s", "h">>
    THEN Outcome(ShellOf(written, TRUE))
    ELSE Run(argv, stdin)

\* Where a process's standard stream is connected.
DevNull == <<"devnull", 0>>
Inherit == <<"inherit", 0>>
Pipe == <<"pipe", 0>>
TmpFile(i) == <<"file", i>>

\* Host events.  spawn: a process is created with this argv, standard input
\* and standard output, in working directory c (cwd=c) and with the
\* additions e to the host's environment (env=merged_env); wait:
\* communicate() has returned for it; mktemp and unlink: temporary file
\* number file is created and deleted.
Spawn(argv, stdin, stdout, c, e) ==
    [ev |-> "spawn", argv |-> argv, stdin |-> stdin, stdout |-> stdout, file |-> 0,
     cwd |-> c, env |-> e]
Wait(argv) ==
    [ev |-> "wait", argv |-> argv, stdin |-> <<>>, stdout |-> <<>>, file |-> 0,
     cwd |-> <<>>, env |-> <<>>]
FileEv(ev, i) ==
    [ev |-> ev, argv |-> <<>>, stdin |-> <<>>, stdout |-> <<>>, file |-> i,
     cwd |-> <<>>, env |-> <<>>]

\* A node evaluator's (rc, stdout, stderr), with the host events it caused.
R(rc, out, err, lg) == [rc |-> rc, out |-> out, err |-> err, log |-> lg]

\* Before the caller's call: no call is in progress and none has been made.
NoCall ==
    /\ stack = <<>>
    /\ arg = <<>>
    /\ ret = R(0, <<>>, <<>>, <<>>)
    /\ calls = 0

\* Python: x or 0 for a return code.
OrZero(rc) == IF rc = 0 THEN 0 ELSE rc

\* One round of the expansion loop for the variable (k, v).
ExpandVar(word, k, v) ==
    LET w1 == Replace(word, <<"$">> \o k, v)
        w2 == Replace(w1, <<"$", "{">> \o k \o <<"}">>, v)
        w3 == Replace(w2, <<"$">> \o k \o <<"$">>, v \o <<"$">>)
    IN  IF w3 = <<"$">> \o k THEN v ELSE w3

RECURSIVE ExpandAll(_, _)
ExpandAll(word, e) ==
    IF e = <<>> THEN word
    ELSE ExpandAll(ExpandVar(word, Head(e).k, Head(e).v), Tail(e))

\* The variable expansion of one word of a command.
ExpandWord(word, e) ==
    IF Contains(word, <<"$">>) /\ e # <<>> THEN ExpandAll(word, e) ELSE word

\* A part of a command node that is a word.
IsWord(part) == part.k = "word"

\* args of a command node: one element per part of kind word, expanded; a
\* part of any other kind is passed over.
Args(parts, e) ==
    [i \in 1..Len(SelectSeq(parts, IsWord)) |-> ExpandWord(SelectSeq(parts, IsWord)[i].w, e)]

\* str(e) of the FileNotFoundError Popen raises for a name on no path.
ErrnoMsg(name) == <<"[Errno 2] No such file or directory: '">> \o name \o <<"'">>

\* Popen(..., cwd=c) can change to the working directory: c is None or a
\* directory of the host.  When it cannot, it raises FileNotFoundError with
\* the directory as the file name.
CwdOk(c) == c = <<>> \/ c \in Dirs

\* Popen(argv, stdin=DEVNULL, stdout=PIPE, stderr=PIPE), communicate(), and
\* the node's return: p is what the process did.
Communicated(p, argv, c, e) ==
    R(OrZero(p.rc), p.out, p.err, <<Spawn(argv, DevNull, Pipe, c, e), Wait(argv)>>)

\* _execute_command_node from `if not args` on.
PopenArgs(args, c, e) ==
    IF args = <<>> THEN R(0, <<>>, <<>>, <<>>)
    ELSE IF args[1] \in OnPath /\ CwdOk(c) THEN Communicated(Proc(args, <<>>), args, c, e)
    ELSE R(127, <<>>, NotFoundMsg(args[1]), <<>>)

\* A command node that starts its process without the cwd argument.
execute_command_node_without_cwd(parts, e, c) == PopenArgs(Args(parts, e), <<>>, e)

\* SecExec._execute_command_node
execute_command_node(parts, e, c) == PopenArgs(Args(parts, e), c, e)

\* _aexecute_command_node from `if not args` on: cmd_path is which(args[0]),
\* cmd_args is [cmd_path] + args[1:].
ExecArgs(args, c, e) ==
    IF args = <<>> THEN R(0, <<>>, <<>>, <<>>)
    ELSE IF Which(args[1]) = <<>> \/ ~CwdOk(c) THEN R(127, <<>>, NotFoundMsg(args[1]), <<>>)
    ELSE Communicated(Proc(<<Which(args[1])>> \o Tail(args), <<>>),
                      <<Which(args[1])>> \o Tail(args), c, e)

\* SecExec._aexecute_command_node
aexecute_command_node(parts, e, c) == ExecArgs(Args(parts, e), c, e)

\* The temporary files of a pipeline of n commands, created / deleted in order.
FileEvents(ev, n) == [i \in 1..(n - 1) |-> FileEv(ev, i)]

\* Stage i of n is started and waited for: its input is the previous
\* stage's file and its output the next file, but the first stage has no
\* stdin argument and the last writes to a pipe.
StageEvents(argv, i, n, c, e) ==
    <<Spawn(argv, IF i = 1 THEN Inherit ELSE TmpFile(i - 1),
            IF i = n THEN Pipe ELSE TmpFile(i), c, e),
      Wait(argv)>>

RECURSIVE PipeStages(_, _, _, _, _, _, _)
RECURSIVE APipeStages(_, _, _, _, _, _, _)

\* After stage i did p: the last stage's status and stdout are the result;
\* any other stage's stdout is what temporary file i holds for the next.
AfterStage(cmds, i, files, errs, lg, c, e, p) ==
    IF i = Len(cmds) THEN R(OrZero(p.rc), p.out, errs \o p.err, lg)
    ELSE PipeStages(cmds, i + 1, [files EXCEPT ![i] = p.out], errs \o p.err, lg, c, e)

AAfterStage(cmds, i, files, errs, lg, c, e, p) ==
    IF i = Len(cmds) THEN R(OrZero(p.rc), p.out, errs \o p.err, lg)
    ELSE APipeStages(cmds, i + 1, [files EXCEPT ![i] = p.out], errs \o p.err, lg, c, e)

\* The stages of _execute_pipeline_node from stage i on: each is started with
\* its input from the previous stage's file and waited for before the next is
\* started.  files[j] is what temporary file j holds.  The first stage reads
\* the caller's standard input (empty here).  Popen raises FileNotFoundError
\* for a name on no path, which the function's except Exception turns into
\* (1, b"", str(e)).
PipeStages(cmds, i, files, errs, lg, c, e) ==
    IF ~CwdOk(c) THEN R(1, <<>>, ErrnoMsg(c), lg)
    ELSE IF cmds[i][1] \notin OnPath
    THEN R(1, <<>>, ErrnoMsg(cmds[i][1]), lg)
    ELSE AfterStage(cmds, i, files, errs,
                    lg \o StageEvents(cmds[i], i, Len(cmds), c, e), c, e,
                    Proc(cmds[i], IF i = 1 THEN <<>> ELSE files[i - 1]))

\* The stages of _aexecute_pipeline_node from stage i on: as PipeStages, but
\* each name is looked up with shutil.which first, the process is started
\* with the path found, and a name not found returns 127 with the stderr
\* gathered so far.
APipeStages(cmds, i, files, errs, lg, c, e) ==
    IF Which(cmds[i][1]) = <<>>
    THEN R(127, <<>>, errs \o NotFoundMsg(cmds[i][1]), lg)
    ELSE IF ~CwdOk(c) THEN R(1, <<>>, ErrnoMsg(c), lg)
    ELSE AAfterStage(cmds, i, files, errs,
                     lg \o StageEvents(<<Which(cmds[i][1])>> \o Tail(cmds[i]), i, Len(cmds),
                                       c, e),
                     c, e,
                     Proc(<<Which(cmds[i][1])>> \o Tail(cmds[i]),
                          IF i = 1 THEN <<>> ELSE files[i - 1]))

\* A finally clause that deletes nothing.
CleanupLeavesFiles(r, n) == r

\* The finally clause: the n - 1 temporary files created are deleted.
Cleanup(r, n) == R(r.rc, r.out, r.err, r.log \o FileEvents("unlink", n))

\* No temporary file holds anything yet.
NoFiles(n) == [j \in 1..(n - 1) |-> <<>>]

\* str(e) of the OSError NamedTemporaryFile raises when the host has no room
\* for another temporary file.
TmpFailedMsg == <<"[Errno 28] No space left on device: ", "<path>">>

\* The creation loop fails at file tmp_free + 1: the files before it were
\* created and are in temp_files, except Exception returns (1, b"", str(e)),
\* and the finally clause runs.
TmpFailed == Cleanup(R(1, <<>>, TmpFailedMsg, FileEvents("mktemp", tmp_free + 1)), tmp_free + 1)

\* _execute_pipeline_node from `if not parsed_commands` on.
RunPipeline(parsed_commands, c, e) ==
    IF parsed_commands = <<>> THEN R(0, <<>>, <<>>, <<>>)
    ELSE IF tmp_free < Len(parsed_commands) - 1 THEN TmpFailed
    ELSE Cleanup(PipeStages(parsed_commands, 1, NoFiles(Len(parsed_commands)), <<>>,
                            FileEvents("mktemp", Len(parsed_commands)), c, e),
                 Len(parsed_commands))

\* _aexecute_pipeline_node from `if not parsed_commands` on.
ARunPipeline(parsed_commands, c, e) ==
    IF parsed_commands = <<>> THEN R(0, <<>>, <<>>, <<>>)
    ELSE IF tmp_free < Len(parsed_commands) - 1 THEN TmpFailed
    ELSE Cleanup(APipeStages(parsed_commands, 1, NoFiles(Len(parsed_commands)), <<>>,
                             FileEvents("mktemp", Len(parsed_commands)), c, e),
                 Len(parsed_commands))

\* SecExec._execute_pipeline_node on the command nodes of a pipeline
execute_pipeline_node(commands, e, c) ==
    IF Len(commands) = 1 THEN execute_command_node(commands[1], e, c)
    ELSE RunPipeline([i \in 1..Len(commands) |-> Args(commands[i], e)], c, e)

\* SecExec._aexecute_pipeline_node on the command nodes of a pipeline
aexecute_pipeline_node(commands, e, c) ==
    IF Len(commands) = 1 THEN aexecute_command_node(commands[1], e, c)
    ELSE ARunPipeline([i \in 1..Len(commands) |-> Args(commands[i], e)], c, e)

\* SecExec._execute_node: dispatch on the node's kind.
execute_node(node, e, c) ==
    IF node.kind = "command" THEN execute_command_node(node.parts, e, c)
    ELSE IF node.kind = "pipeline" THEN execute_pipeline_node(node.parts, e, c)
    ELSE R(1, <<>>, <<"Unknown node type: ">>, <<>>)

\* SecExec._aexecute_node: dispatch on the node's kind.
aexecute_node(node, e, c) ==
    IF node.kind = "command" THEN aexecute_command_node(node.parts, e, c)
    ELSE IF node.kind = "pipeline" THEN aexecute_pipeline_node(node.parts, e, c)
    ELSE R(1, <<>>, <<"Unknown node type: ">>, <<>>)


(***************************************************************************)
(* SecExec.execute and SecExec.aexecute.  The two bodies are the same code *)
(* line for line but for the node evaluator they end in, so one operator   *)
(* with the entry point m ("execute" or "aexecute") models both.           *)
(***************************************************************************)

ParseFailedMsg == <<"Failed to parse command: ", "<detail>">>

\* A test that sends no command string to bash.
HasParensNever(s) == FALSE

\* The test that sends a command string to bash.
HasParens(s) == Contains(s, <<"(">>) /\ Contains(s, <<")">>)

\* stdout and stderr decoded for the returned triple.
Decoded(r) == R(r.rc, Decode(r.out), Decode(r.err), r.log)

\* The argv of the branch for a string with parentheses.
BashArgv(s) == <<<<"b", "a", "s", "h">>, <<"-", "c">>, s>>

\* except Exception at the end of both bodies.
ExecFailedMsg(detail) == <<"Error executing command: ">> \o detail

\* The branch for a string with parentheses: bash -c command_str.
ShellFallback(s, c, e) ==
    IF CwdOk(c) THEN Decoded(Communicated(Proc(BashArgv(s), <<>>), BashArgv(s), c, e))
    ELSE R(1, <<>>, ExecFailedMsg(ErrnoMsg(c)), <<>>)

\* The node loop: every top-level node (one for a one-line string) through
\* the node evaluator, the bytes decoded.  A ParsingError becomes the triple
\* ("", "Failed to parse command: ...", 1).
RunNode(m, node, c, e) ==
    IF ~node.ok THEN R(1, <<>>, ParseFailedMsg, <<>>)
    ELSE Decoded(IF m = "execute" THEN execute_node(node, e, c) ELSE aexecute_node(node, e, c))

\* An end of both bodies that expands the variables in the string before
\* it parses it.
ParseAndRunExpanded(m, s, c, e) == RunNode(m, Parse(ExpandWord(s, e)), c, e)

\* The end of both bodies: bashlex.parse, then the node loop.
ParseAndRun(m, s, c, e) == RunNode(m, Parse(s), c, e)

RECURSIVE ExecuteStr(_, _, _, _)
RECURSIVE AndLoop(_, _, _, _, _, _, _)
RECURSIVE OrLoop(_, _, _, _, _, _)
RECURSIVE SeqLoop(_, _, _, _, _, _, _, _)

\* The loop of the && branch over the parts still to run: all_stdout is
\* outs, all_stderr is errs.  A part that exits nonzero ends the loop with
\* its status; its stdout is not kept.
AndLoop(m, parts, c, e, outs, errs, lg) ==
    IF parts = <<>> THEN R(0, Join(outs, NL), errs, lg)
    ELSE LET part == Strip(Head(parts))
             r == ExecuteStr(m, part, c, e)
         IN  IF part = <<>> THEN AndLoop(m, Tail(parts), c, e, outs, errs, lg)
             ELSE IF r.rc = 0
                  THEN AndLoop(m, Tail(parts), c, e, Append(outs, Strip(r.out)),
                               errs \o r.err, lg \o r.log)
                  ELSE R(r.rc, Join(outs, NL), errs \o r.err, lg \o r.log)

\* The loop of the || branch: the first part that exits 0 is the result; when
\* none does, the last part is executed again and that is the result.
OrLoop(m, parts, all, c, e, lg) ==
    IF parts = <<>>
    THEN LET r == ExecuteStr(m, Strip(all[Len(all)]), c, e)
         IN  R(r.rc, r.out, r.err, lg \o r.log)
    ELSE LET part == Strip(Head(parts))
             r == ExecuteStr(m, part, c, e)
         IN  IF part = <<>> THEN OrLoop(m, Tail(parts), all, c, e, lg)
             ELSE IF r.rc = 0 THEN R(r.rc, r.out, r.err, lg \o r.log)
                  ELSE OrLoop(m, Tail(parts), all, c, e, lg \o r.log)

\* A ; branch that reports the status of the last part that failed, when one
\* did, in place of the last part's.
SeqLoopReportsFailure(m, parts, c, e, outs, errs, last_rc, lg) ==
    IF parts = <<>> THEN R(last_rc, Join(outs, NL), errs, lg)
    ELSE LET part == Strip(Head(parts))
             r == ExecuteStr(m, part, c, e)
         IN  IF part = <<>> THEN SeqLoop(m, Tail(parts), c, e, outs, errs, last_rc, lg)
             ELSE SeqLoop(m, Tail(parts), c, e,
                          IF Strip(r.out) # <<>> THEN Append(outs, Strip(r.out)) ELSE outs,
                          errs \o r.err, IF r.rc # 0 THEN r.rc ELSE last_rc, lg \o r.log)

\* The loop of the ; branch: every part runs; last_rc is the last one's.
SeqLoop(m, parts, c, e, outs, errs, last_rc, lg) ==
    IF parts = <<>> THEN R(last_rc, Join(outs, NL), errs, lg)
    ELSE LET part == Strip(Head(parts))
             r == ExecuteStr(m, part, c, e)
         IN  IF part = <<>> THEN SeqLoop(m, Tail(parts), c, e, outs, errs, last_rc, lg)
             ELSE SeqLoop(m, Tail(parts), c, e,
                          IF Strip(r.out) # <<>> THEN Append(outs, Strip(r.out)) ELSE outs,
                          errs \o r.err, r.rc, lg \o r.log)

\* A body without the test for an empty command string.
ExecuteStrNoEmptyTest(m, s, c, e) ==
    IF HasParens(s) THEN ShellFallback(s, c, e)
    ELSE IF Contains(s, AndOp) THEN AndLoop(m, Split(s, AndOp), c, e, <<>>, <<>>, <<>>)
    ELSE IF Contains(s, OrOp)
         THEN OrLoop(m, Split(s, OrOp), Split(s, OrOp), c, e, <<>>)
    ELSE IF Contains(s, SeqOp) THEN SeqLoop(m, Split(s, SeqOp), c, e, <<>>, <<>>, 0, <<>>)
    ELSE ParseAndRun(m, s, c, e)

\* The body of execute / aexecute on command_str s with env e.
ExecuteStr(m, s, c, e) ==
    IF Strip(s) = <<>> THEN R(0, <<>>, <<>>, <<>>)
    ELSE IF HasParens(s) THEN ShellFallback(s, c, e)
    ELSE IF Contains(s, AndOp) THEN AndLoop(m, Split(s, AndOp), c, e, <<>>, <<>>, <<>>)
    ELSE IF Contains(s, OrOp)
         THEN LET parts == Split(s, OrOp) IN OrLoop(m, parts, parts, c, e, <<>>)
    ELSE IF Contains(s, SeqOp) THEN SeqLoop(m, Split(s, SeqOp), c, e, <<>>, <<>>, 0, <<>>)
    ELSE ParseAndRun(m, s, c, e)

\* SecExec.execute(command_str, cwd, env)
execute(s, c, e) == ExecuteStr("execute", s, c, e)

\* SecExec.aexecute(command_str, cwd, env)
aexecute(s, c, e) == ExecuteStr("aexecute", s, c, e)

(***************************************************************************)
(* The calls made: command strings written as up to MaxCmds commands       *)
(* joined by operators, each command a program name and its arguments.     *)
(***************************************************************************)

MaxCmds == 3

\* Commands with a quoted or a variable word are written in command strings
\* of at most MaxSpecialCmds commands.
MaxSpecialCmds == 2

\* A word as written: its text, and whether it is written in single quotes.
W(c) == [w |-> c, q |-> FALSE]
Q(c) == [w |-> c, q |-> TRUE]

PlainPool ==
    { <<W(<<"t">>)>>,
      <<W(<<"x">>)>>,
      <<W(<<"n">>)>>,
      <<W(<<"c">>)>>,
      <<W(<<"e">>), W(<<"a">>)>> }

SpecialPool ==
    { <<W(<<"e">>), W(<<"$", "X">>)>>,
      <<W(<<"e">>), Q(AndOp)>>,
      <<W(<<"e">>), Q(OrOp)>>,
      <<W(<<"n">>), Q(SeqOp)>>,
      <<W(<<"e">>), Q(<<"(", ")">>)>> }

CmdPool == PlainPool \cup SpecialPool

Ops == {AndOp, OrOp, SeqOp, PipeOp}

EnvPool == { <<>>, <<[k |-> <<"X">>, v |-> <<"a", " ", "b">>]>> }

\* The text of a word, a command and a whole command string as written.
RenderWord(word) == IF word.q THEN <<"'">> \o word.w \o <<"'">> ELSE word.w
RenderCmd(cmd) == Join([i \in 1..Len(cmd) |-> RenderWord(cmd[i])], SP)
RECURSIVE Render(_, _)
Render(cmds, ops) ==
    IF Len(cmds) = 1 THEN RenderCmd(cmds[1])
    ELSE RenderCmd(cmds[1]) \o SP \o ops[1] \o SP \o Render(Tail(cmds), Tail(ops))

Init ==
    /\ \E n \in 1..MaxCmds :
         \E cmds \in [1..n -> CmdPool] :
            /\ n <= MaxSpecialCmds \/ \A i \in 1..n : cmds[i] \in PlainPool
            /\ \E ops \in [1..(n - 1) -> Ops] :
                  /\ written = [cmds |-> cmds, ops |-> ops]
                  /\ command_str = Render(cmds, ops)
    /\ env \in (IF Contains(command_str, <<"$">>) THEN EnvPool ELSE {<<>>})
    /\ cwd = <<>>
    /\ pc = "ready"
    /\ mode = "none"
    /\ result = [stdout |-> <<>>, stderr |-> <<>>, rc |-> 0]
    /\ log = <<>>
    /\ tmp_free = Len(written.cmds)
    /\ deadline = 0
    /\ NoCall

\* The call returns r: the caller has its triple, the host the call's events.
Returned(r) ==
    /\ result' = [stdout |-> r.out, stderr |-> r.err, rc |-> r.rc]
    /\ log' = r.log

\* The caller calls execute(command_str, cwd, env) and gets its triple.
Execute ==
    /\ pc = "ready"
    /\ Returned(execute(command_str, cwd, env))
    /\ mode' = "execute"
    /\ pc' = "returned"
    /\ UNCHANGED <<command_str, env, cwd, written, tmp_free, deadline, stack, arg, ret, calls>>

\* The caller awaits aexecute(command_str, cwd, env) and gets its triple.
AExecute ==
    /\ pc = "ready"
    /\ Returned(aexecute(command_str, cwd, env))
    /\ mode' = "aexecute"
    /\ pc' = "returned"
    /\ UNCHANGED <<command_str, env, cwd, written, tmp_free, deadline, stack, arg, ret, calls>>

Next == Execute \/ AExecute

Spec == Init /\ [][Next]_vars


(***************************************************************************)
(* What the claims compare the engine with: the operands of the root       *)
(* operator of the string as written, evaluated by the specification's     *)
(* rules.                                                                   *)
(***************************************************************************)

\* The operands of the root operator of the string as written.
RootK == RootOp(written.ops)
Left == ShellEval(SubSeq(written.cmds, 1, RootK), SubSeq(written.ops, 1, RootK - 1), FALSE)
Right == ShellEval(SubSeq(written.cmds, RootK + 1, Len(written.cmds)),
             SubSeq(written.ops, RootK + 1, Len(written.ops)), FALSE)
RootIs(op) == written.ops # <<>> /\ written.ops[RootK] = op

\* argv with the program's name for argv[0], whichever way it was started.
NormArgv(argv) == <<Program(argv)>> \o Tail(argv)

\* The argv of the processes a log shows started, in order.
RECURSIVE Spawned(_)
Spawned(lg) ==
    IF lg = <<>> THEN <<>>
    ELSE IF Head(lg).ev = "spawn" THEN <<NormArgv(Head(lg).argv)>> \o Spawned(Tail(lg))
    ELSE Spawned(Tail(lg))

Range(f) == {f[i] : i \in DOMAIN f}

IsSuffix(t, q) == Len(t) <= Len(q) /\ SubSeq(q, Len(q) - Len(t) + 1, Len(q)) = t

\* The processes of the right operand all ran, last; none of them ran.
RightRan == IsSuffix(Right.spawns, Spawned(log))
RightNotStarted == \A a \in Range(Right.spawns) \ Range(Left.spawns) : a \notin Range(Spawned(log))

\* No word of the string as written is quoted or a variable reference.
AllPlain == \A i \in 1..Len(written.cmds) : written.cmds[i] \in PlainPool

\* Every variable the string as written refers to is a key of env.
VarsDefined ==
    \A i \in 1..Len(written.cmds) : \A k \in 1..Len(written.cmds[i]) :
        LET word == written.cmds[i][k]
        IN  (~word.q /\ word.w[1] = "$") => \E j \in 1..Len(env) : env[j].k = VarName(word.w)

\* The string as written has no pipe: its operands are lists of commands.
NoPipes == \A i \in 1..Len(written.ops) : written.ops[i] # PipeOp

\* The string as written is a pipeline of two or more commands.
IsPipeline ==
    /\ Len(written.cmds) >= 2
    /\ \A i \in 1..Len(written.ops) : written.ops[i] = PipeOp

\* The whole string as written, evaluated by the specification's rules.
Whole == ShellEval(written.cmds, written.ops, FALSE)

\* Command i of the string as written, evaluated alone.
Single(i) == ShellEval(<<written.cmds[i]>>, <<>>, FALSE)

\* The name command i of the string as written runs, and whether it resolves.
NameOf(i) == ArgvOf(written.cmds[i])[1]
Resolves(i) == NameOf(i) \in OnPath

\* communicate() has returned for every process the log shows started.
AllWaited(lg) ==
    \A i \in 1..Len(lg) :
        lg[i].ev = "spawn" =>
            \E j \in (i + 1)..Len(lg) : lg[j].ev = "wait" /\ lg[j].argv = lg[i].argv

(***************************************************************************)
(* The claims.                                                             *)
(***************************************************************************)

\* C1: on left && right without pipes, in both modes: when left exits 0, right is run and
\* the reported exit code is right's; when left exits nonzero, no process of
\* right is started and the reported exit code is left's.
C1_AndShortCircuit ==
    (pc = "returned" /\ RootIs(AndOp) /\ NoPipes /\ VarsDefined) =>
        IF Left.rc = 0
        THEN RightRan /\ result.rc = Right.rc
        ELSE RightNotStarted /\ result.rc = Left.rc

\* C1 for command strings without quoted or variable words.
C1_AndShortCircuit_Plain == AllPlain => C1_AndShortCircuit

\* C2: on left || right of plain words, in both modes: when left exits 0, no
\* process of right is started and the reported exit code is 0; when left
\* exits nonzero, right is run and the reported exit code is right's.
C2_OrShortCircuit ==
    (pc = "returned" /\ RootIs(OrOp) /\ NoPipes /\ AllPlain) =>
        IF Left.rc = 0
        THEN RightNotStarted /\ result.rc = 0
        ELSE RightRan /\ result.rc = Right.rc

\* C2 for left and right that are single commands.
C2_OrShortCircuit_Single == Len(written.cmds) = 2 => C2_OrShortCircuit

\* C3: on left ; right of plain words, in both modes: both sides are run
\* whatever left's exit code is, and the reported exit code is right's.
C3_SequenceRunsBoth ==
    (pc = "returned" /\ RootIs(SeqOp) /\ NoPipes /\ AllPlain) =>
        /\ Spawned(log) = Left.spawns \o Right.spawns
        /\ result.rc = Right.rc

\* C3 for left and right that are single commands.
C3_SequenceRunsBoth_Single == Len(written.cmds) = 2 => C3_SequenceRunsBoth

\* The case of C4: execute on c1 ; c2 ; c3 of plain words, c1 and c3 exiting 0
\* and c2 nonzero.
SeqOfThree ==
    /\ pc = "returned"
    /\ mode = "execute"
    /\ Len(written.cmds) = 3
    /\ written.ops = <<SeqOp, SeqOp>>
    /\ AllPlain
    /\ Single(1).rc = 0
    /\ Single(2).rc # 0
    /\ Single(3).rc = 0

\* All three segments ran, and stdout has the output of c1 and of c3.
AllThreeRan ==
    /\ Spawned(log) = Single(1).spawns \o Single(2).spawns \o Single(3).spawns
    /\ Contains(result.stdout, Strip(Single(1).out))
    /\ Contains(result.stdout, Strip(Single(3).out))

\* C4 as stated: in that case all three segments are run, stdout has the
\* output of c1 and of c3, and the reported exit code is c2's nonzero status.
C4_SequenceReportsMiddle == SeqOfThree => (AllThreeRan /\ result.rc = Single(2).rc)

\* C4 as amended: in that case all three segments are run, stdout has the
\* output of c1 and of c3, and the reported exit code is c3's status, 0.
C4_SequenceReportsLast == SeqOfThree => (AllThreeRan /\ result.rc = Single(3).rc)

\* C4's case has happened: e a ; x ; e a has run all three and returned 0.
C4_Witness ==
    /\ SeqOfThree
    /\ written.cmds = <<<<W(<<"e">>), W(<<"a">>)>>, <<W(<<"x">>)>>, <<W(<<"e">>), W(<<"a">>)>>>>
    /\ Len(Spawned(log)) = 3
    /\ result.rc = 0
    /\ result.stdout = <<"a", "\n", "o", "\n", "a">>

\* C5: a pipeline s1 | ... | sn (n >= 2) whose stages all resolve and whose
\* stages after the first read their whole input returns, in both modes, the
\* stdout and exit code of the same stages connected by real pipes.
C5_PipelineMatchesRealPipes ==
    (/\ pc = "returned"
     /\ IsPipeline
     /\ VarsDefined
     /\ \A i \in 1..Len(written.cmds) : Resolves(i)
     /\ \A i \in 2..Len(written.cmds) : NameOf(i) = <<"c">>) =>
        /\ result.stdout = Whole.out
        /\ result.rc = Whole.rc

\* C5 for pipelines without quoted or variable words.
C5_PipelineMatchesRealPipes_Plain == AllPlain => C5_PipelineMatchesRealPipes

\* C6: no command string makes the engine start a shell: bash is never the
\* program of a process it starts.
C6_NoShell ==
    \A i \in 1..Len(log) :
        log[i].ev = "spawn" => Program(log[i].argv) # <<"b", "a", "s", "h">>

\* C7: every process started has the argv of a command of the string, one
\* element per word, the value of a variable of env in one piece.
C7_OneArgvElementPerWord ==
    VarsDefined => \A a \in Range(Spawned(log)) : \E i \in 1..Len(written.cmds) : a = ArgvOf(written.cmds[i])

\* C7 for command strings the engine does not hand to bash.
C7_OneArgvElementPerWord_NoShell == ~HasParens(command_str) => C7_OneArgvElementPerWord

\* C8: a single command whose argv[0] resolves to no executable returns, in
\* both modes, exit code 127 and a stderr containing "Command not found:
\* <argv[0]>", and starts no process.
C8_CommandNotFound ==
    (pc = "returned" /\ Len(written.cmds) = 1 /\ ~Resolves(1)) =>
        /\ result.rc = 127
        /\ Contains(result.stderr, NotFoundMsg(NameOf(1)))
        /\ Spawned(log) = <<>>

\* C8 for a command without quoted or variable words.
C8_CommandNotFound_Plain == AllPlain => C8_CommandNotFound

\* C9: a pipeline of plain words with a stage whose argv[0] does not resolve
\* returns, in both modes, exit code 127, and every process it started has
\* been waited for.
C9_PipelineUnresolvedStage ==
    (/\ pc = "returned"
     /\ IsPipeline
     /\ AllPlain
     /\ \E i \in 1..Len(written.cmds) : ~Resolves(i)) =>
        /\ result.rc = 127
        /\ AllWaited(log)

\* C9 for aexecute alone.
C9_PipelineUnresolvedStage_Async == mode = "aexecute" => C9_PipelineUnresolvedStage

\* C10: the other entry point, called with the same arguments, starts the
\* same programs in the same order and returns the same triple.
C10_ModesAgree ==
    pc = "returned" =>
        LET o == IF mode = "execute" THEN aexecute(command_str, cwd, env)
                 ELSE execute(command_str, cwd, env)
        IN  /\ result = [stdout |-> o.out, stderr |-> o.err, rc |-> o.rc]
            /\ Spawned(log) = Spawned(o.log)

\* C10 for command strings that are no pipeline with an unresolved stage.
C10_ModesAgree_Resolved ==
    (\A i \in 1..Len(written.cmds) : Resolves(i)) => C10_ModesAgree

\* C11: a pipeline whose stages all resolve returns, in both modes, the last
\* stage's exit code, the last stage's stdout, and the stderr of stages 1..n
\* concatenated in stage order.
C11_PipelineResult ==
    (/\ pc = "returned"
     /\ IsPipeline
     /\ VarsDefined
     /\ \A i \in 1..Len(written.cmds) : Resolves(i)) =>
        /\ result.rc = Single(Len(written.cmds)).rc
        /\ result.stdout = Whole.out
        /\ result.stderr = Whole.err

\* C11 for pipelines without quoted or variable words.
C11_PipelineResult_Plain == AllPlain => C11_PipelineResult

\* No process of the log is started after communicate() has returned for
\* another one.
AllStartedBeforeAnyWait(lg) ==
    \A i \in 1..Len(lg) : \A j \in (i + 1)..Len(lg) :
        ~(lg[i].ev = "wait" /\ lg[j].ev = "spawn")

\* C12: in a pipeline of plain words whose stages all resolve, every stage is
\* started before any stage is waited for, and no temporary file is created.
C12_StagesStartTogether ==
    (/\ pc = "returned"
     /\ IsPipeline
     /\ AllPlain
     /\ \A i \in 1..Len(written.cmds) : Resolves(i)) =>
        /\ AllStartedBeforeAnyWait(log)
        /\ \A i \in 1..Len(log) : log[i].ev # "mktemp"

\* Some word of the string as written is quoted.
HasQuoted ==
    \E i \in 1..Len(written.cmds) : \E k \in 1..Len(written.cmds[i]) : written.cmds[i][k].q

\* C14: in a command, or in two commands joined by && or ;, with an operator
\* or parentheses inside a quoted word, the processes started are those of
\* the string as written, the quoted text one literal argument.
C14_QuotedOperatorsAreText ==
    (/\ pc = "returned"
     /\ HasQuoted
     /\ VarsDefined
     /\ \A i \in 1..Len(written.ops) : written.ops[i] \in {AndOp, SeqOp}) =>
        Spawned(log) = Whole.spawns

\* C15: during one call on a string of plain words, no more processes are
\* started than the string has commands: none is executed twice.
C15_SinglePass ==
    (pc = "returned" /\ AllPlain) => Len(Spawned(log)) <= Len(written.cmds)

\* C15 for command strings without ||.
C15_SinglePass_NoOr ==
    (\A i \in 1..Len(written.ops) : written.ops[i] # OrOp) => C15_SinglePass

\* The string as written is left op right of two plain commands, and the
\* operator has both of them executed.
BothSidesRun ==
    /\ pc = "returned"
    /\ AllPlain
    /\ Len(written.cmds) = 2
    /\ \/ RootIs(SeqOp)
       \/ RootIs(AndOp) /\ Left.rc = 0
       \/ RootIs(OrOp) /\ Left.rc # 0

\* C16: when both sides of a list operator are executed, the returned stdout
\* is left's stdout followed by right's and the returned stderr is left's
\* stderr followed by right's, nothing inserted, stripped or dropped.
C16_OutputsConcatenated ==
    BothSidesRun =>
        /\ result.stdout = Left.out \o Right.out
        /\ result.stderr = Left.err \o Right.err

\* C16 for the stderr of && and ; alone.
C16_StderrConcatenated ==
    (BothSidesRun /\ ~RootIs(OrOp)) => result.stderr = Left.err \o Right.err

(***************************************************************************)
(* Calls with a command string outside the grammar: a command string of    *)
(* plain words with an operator that lacks an operand in front of it or    *)
(* after it, or ended by a doubled semicolon.                              *)
(***************************************************************************)

MaxDanglingCmds == 2

\* An operator with nothing before it.
LeadingOps == {AndOp, OrOp, SeqOp, PipeOp}

\* An operator with nothing after it (a single trailing ; is in the grammar).
TrailingOps == {AndOp, OrOp, PipeOp, <<";", ";">>}

GrammarInit ==
    /\ \E n \in 1..MaxDanglingCmds :
         \E cmds \in [1..n -> PlainPool] :
            \E ops \in [1..(n - 1) -> Ops] :
               /\ written = [cmds |-> cmds, ops |-> ops]
               /\ \/ \E op \in LeadingOps : command_str = op \o SP \o Render(cmds, ops)
                  \/ \E op \in TrailingOps : command_str = Render(cmds, ops) \o SP \o op
    /\ env = <<>>
    /\ cwd = <<>>
    /\ pc = "ready"
    /\ mode = "none"
    /\ result = [stdout |-> <<>>, stderr |-> <<>>, rc |-> 0]
    /\ log = <<>>
    /\ tmp_free = Len(written.cmds)
    /\ deadline = 0
    /\ NoCall

GrammarSpec == GrammarInit /\ [][Next]_vars

\* C13: a command string with a dangling operator returns, in both modes,
\* exit code 1 and a stderr starting with "Failed to parse command: ", and
\* starts no process.
C13_InvalidGrammarRejected ==
    pc = "returned" =>
        /\ result.rc = 1
        /\ result.stderr # <<>>
        /\ result.stderr[1] = ParseFailedMsg[1]
        /\ Spawned(log) = <<>>

\* C13 for a single command with a dangling pipe, which reaches the parser.
C13_InvalidGrammarRejected_Pipe ==
    (/\ Len(written.cmds) = 1
     /\ command_str \in {PipeOp \o SP \o Render(written.cmds, written.ops),
                         Render(written.cmds, written.ops) \o SP \o PipeOp}) =>
        C13_InvalidGrammarRejected

(***************************************************************************)
(* Calls with a cwd argument: None, a directory of the host, or a path     *)
(* that is no directory.                                                   *)
(***************************************************************************)

MaxCwdCmds == 2

CwdPool == {<<>>, <<"/", "d">>, <<"/", "g">>}

\* The commands of the calls with a cwd: plain words, or echo '()'.
CwdCmdPool == PlainPool \cup {<<W(<<"e">>), Q(<<"(", ")">>)>>}

CwdInit ==
    /\ \E n \in 1..MaxCwdCmds :
         \E cmds \in [1..n -> CwdCmdPool] :
            \E ops \in [1..(n - 1) -> Ops] :
               /\ written = [cmds |-> cmds, ops |-> ops]
               /\ command_str = Render(cmds, ops)
    /\ env = <<>>
    /\ cwd \in CwdPool
    /\ pc = "ready"
    /\ mode = "none"
    /\ result = [stdout |-> <<>>, stderr |-> <<>>, rc |-> 0]
    /\ log = <<>>
    /\ tmp_free = Len(written.cmds)
    /\ deadline = 0
    /\ NoCall

CwdSpec == CwdInit /\ [][Next]_vars

\* C17: when every command name of the string resolves, the call does not
\* return exit code 127, whatever the cwd is.
C17_OnlyUnresolvedIs127 ==
    (pc = "returned" /\ \A i \in 1..Len(written.cmds) : Resolves(i)) =>
        result.rc # 127

\* C17 for a cwd that is None or a directory.
C17_OnlyUnresolvedIs127_CwdOk == CwdOk(cwd) => C17_OnlyUnresolvedIs127

(***************************************************************************)
(* Calls of echo with one variable word and an env of the keys A and AB,   *)
(* in either iteration order, of one of them, or of none.                  *)
(***************************************************************************)

KeyA == <<"A">>
KeyAB == <<"A", "B">>

\* The values a variable has.
ValuePool == {<<"1">>, <<"a", " ", "b">>}

\* $A, ${A}, $AB and ${AB}.
VarWords ==
    { <<"$">> \o KeyA, <<"$", "{">> \o KeyA \o <<"}">>,
      <<"$">> \o KeyAB, <<"$", "{">> \o KeyAB \o <<"}">> }

VarEnvPool ==
    {<<>>}
    \cup {<<[k |-> KeyA, v |-> a]>> : a \in ValuePool}
    \cup {<<[k |-> KeyAB, v |-> b]>> : b \in ValuePool}
    \cup {<<[k |-> KeyA, v |-> x[1]], [k |-> KeyAB, v |-> x[2]]>> : x \in ValuePool \X ValuePool}
    \cup {<<[k |-> KeyAB, v |-> x[2]], [k |-> KeyA, v |-> x[1]]>> : x \in ValuePool \X ValuePool}

VarInit ==
    /\ \E w \in VarWords :
          /\ written = [cmds |-> <<<<W(<<"e">>), W(w)>>>>, ops |-> <<>>]
          /\ command_str = Render(written.cmds, written.ops)
    /\ env \in VarEnvPool
    /\ cwd = <<>>
    /\ pc = "ready"
    /\ mode = "none"
    /\ result = [stdout |-> <<>>, stderr |-> <<>>, rc |-> 0]
    /\ log = <<>>
    /\ tmp_free = Len(written.cmds)
    /\ deadline = 0
    /\ NoCall

VarSpec == VarInit /\ [][Next]_vars

\* The name the variable word of the call refers to; whether env has it.
TheName == VarName(written.cmds[1][2].w)
HasKey(name) == \E j \in 1..Len(env) : env[j].k = name

\* C18: a reference to AB in an env with the keys A and AB, in either order,
\* is replaced by the value of AB: echo gets that value as its argument.
C18_LongestMatchFirst ==
    (pc = "returned" /\ TheName = KeyAB /\ HasKey(KeyA) /\ HasKey(KeyAB)) =>
        Spawned(log) = <<<<<<"e">>, Lookup(KeyAB)>>>>

\* C18 for an env that iterates AB before A.
C18_LongestMatchFirst_LongestFirst ==
    (env # <<>> /\ env[1].k = KeyAB) => C18_LongestMatchFirst

\* C19: a reference to a name that is no key of env, the empty env included,
\* is replaced by the empty string: echo gets "" as its argument.
C19_UnknownIsEmpty ==
    (pc = "returned" /\ ~HasKey(TheName)) =>
        Spawned(log) = <<<<<<"e">>, <<>>>>>>

\* A reference to a name that is a key of env, no other key a prefix of it,
\* is replaced by its value in one piece.
KnownIsValue ==
    (pc = "returned" /\ HasKey(TheName) /\ ~(TheName = KeyAB /\ HasKey(KeyA))) =>
        Spawned(log) = <<<<<<"e">>, Lookup(TheName)>>>>

(***************************************************************************)
(* Calls with an empty or whitespace-only command string.                  *)
(***************************************************************************)

MaxBlankLen == 4

\* The strings of whitespace of length n.
Blanks(n) == [1..n -> Whitespace]

BlankInit ==
    /\ \E n \in 0..MaxBlankLen : command_str \in Blanks(n)
    /\ written = [cmds |-> <<>>, ops |-> <<>>]
    /\ env = <<>>
    /\ cwd = <<>>
    /\ pc = "ready"
    /\ mode = "none"
    /\ result = [stdout |-> <<>>, stderr |-> <<>>, rc |-> 0]
    /\ log = <<>>
    /\ tmp_free = Len(written.cmds)
    /\ deadline = 0
    /\ NoCall

BlankSpec == BlankInit /\ [][Next]_vars

\* C20: for an empty or whitespace-only command string, execute and aexecute
\* return ("", "", 0) and start no process.
C20_EmptyCommand ==
    (pc = "returned" /\ Strip(command_str) = <<>>) =>
        /\ result = [stdout |-> <<>>, stderr |-> <<>>, rc |-> 0]
        /\ Spawned(log) = <<>>

\* C20's case has happened: aexecute has returned ("", "", 0) from a call on
\* a space and a tab, and nothing was done to the host.
C20_Witness ==
    /\ pc = "returned"
    /\ mode = "aexecute"
    /\ command_str = <<" ", "\t">>
    /\ result = [stdout |-> <<>>, stderr |-> <<>>, rc |-> 0]
    /\ log = <<>>

(***************************************************************************)
(* C21: one failure channel.  The model's calls always return a triple:    *)
(* both bodies are wrapped in try / except Exception, so no operator here  *)
(* has a raised outcome.                                                    *)
(***************************************************************************)

\* C21: a call on a string of plain words without pipes reports a failure
\* of the string as written with a nonzero exit code, and a failing command
\* stops nothing but what the short-circuit rules skip: every command the
\* rules leave to run has been run.
C21_FailuresReported ==
    (pc = "returned" /\ AllPlain /\ NoPipes) =>
        /\ (Whole.rc # 0 => result.rc # 0)
        /\ Range(Whole.spawns) \subseteq Range(Spawned(log))

\* C21 for command strings whose operators are all the same one.
C21_FailuresReported_OneOperator ==
    (\A i \in 1..Len(written.ops) : written.ops[i] = written.ops[1]) => C21_FailuresReported

\* C22: every process started has its standard input closed (the null
\* device) or, as a pipeline stage with a predecessor, reads the file its
\* predecessor wrote; none reads the caller's standard input.
C22_StdinClosedOrWired ==
    \A i \in 1..Len(log) :
        log[i].ev = "spawn" =>
            \/ log[i].stdin = DevNull
            \/ \E k \in 1..Len(log) :
                  /\ k < i
                  /\ log[k].ev = "spawn"
                  /\ log[k].stdout[1] = "file"
                  /\ log[i].stdin = log[k].stdout

\* C22 for every process but the first stage of a pipeline.
C22_StdinClosedOrWired_NotFirstStage ==
    \A i \in 1..Len(log) :
        (log[i].ev = "spawn" /\ log[i].stdout # TmpFile(1)) =>
            \/ log[i].stdin = DevNull
            \/ \E k \in 1..Len(log) :
                  /\ k < i
                  /\ log[k].ev = "spawn"
                  /\ log[k].stdout[1] = "file"
                  /\ log[i].stdin = log[k].stdout

(***************************************************************************)
(* Calls with a redirection: command strings of up to MaxRedirCmds         *)
(* commands, some of them written with an output or input redirection.     *)
(***************************************************************************)

MaxRedirCmds == 2

\* Commands written with a redirection: e b > f and e < f.
RedirPool ==
    { <<W(<<"e">>), W(<<"b">>), W(<<">">>), W(<<"f">>)>>,
      <<W(<<"e">>), W(<<"<">>), W(<<"f">>)>> }

RedirCmdPool == PlainPool \cup RedirPool

RedirInit ==
    /\ \E n \in 1..MaxRedirCmds :
         \E cmds \in [1..n -> RedirCmdPool] :
            \E ops \in [1..(n - 1) -> Ops] :
               /\ written = [cmds |-> cmds, ops |-> ops]
               /\ command_str = Render(cmds, ops)
    /\ env = <<>>
    /\ cwd = <<>>
    /\ pc = "ready"
    /\ mode = "none"
    /\ result = [stdout |-> <<>>, stderr |-> <<>>, rc |-> 0]
    /\ log = <<>>
    /\ tmp_free = Len(written.cmds)
    /\ deadline = 0
    /\ NoCall

RedirSpec == RedirInit /\ [][Next]_vars

\* Command i of the string as written has a redirection.
HasRedirect(i) == written.cmds[i] \in RedirPool

\* The words of command i before its redirection.
WordsBefore(i) ==
    LET cmd == written.cmds[i]
        k == CHOOSE j \in 1..Len(cmd) : cmd[j].w \in {<<">">>, <<"<">>}
    IN  [j \in 1..(k - 1) |-> cmd[j].w]

\* C23: a command written with a redirection is never executed with the
\* redirection left out, and a command string that is one such command
\* returns a failure.
C23_RedirectionRefused ==
    pc = "returned" =>
        /\ \A i \in 1..Len(written.cmds) :
              HasRedirect(i) => WordsBefore(i) \notin Range(Spawned(log))
        /\ (Len(written.cmds) = 1 /\ HasRedirect(1)) => result.rc # 0

\* The redirection is no argument either: no process started has the
\* redirection operator or its target in its argv.
C23_RedirectionNotAnArgument ==
    \A a \in Range(Spawned(log)) : \A j \in 1..Len(a) : a[j] \notin {<<">">>, <<"<">>, <<"f">>}

(***************************************************************************)
(* Calls with a parenthesised group: command strings of up to MaxGroupCmds *)
(* commands joined by list operators, two neighbouring commands (joined by *)
(* any operator) written in parentheses.                                    *)
(***************************************************************************)

MaxGroupCmds == 4

GroupCmdPool ==
    { <<W(<<"t">>)>>,
      <<W(<<"x">>)>>,
      <<W(<<"e">>), W(<<"a">>)>> }

ListOps == {AndOp, OrOp, SeqOp}

\* The text of cmds joined by ops with commands lo..hi in parentheses.
GroupRender(cmds, ops, lo, hi) ==
    (IF lo > 1
     THEN Render(SubSeq(cmds, 1, lo - 1), SubSeq(ops, 1, lo - 2)) \o SP \o ops[lo - 1] \o SP
     ELSE <<>>)
    \o <<"(">> \o Render(SubSeq(cmds, lo, hi), SubSeq(ops, lo, hi - 1)) \o <<")">>
    \o (IF hi < Len(cmds)
        THEN SP \o ops[hi] \o SP
             \o Render(SubSeq(cmds, hi + 1, Len(cmds)), SubSeq(ops, hi + 1, Len(ops)))
        ELSE <<>>)

GroupInit ==
    /\ \E n \in 2..MaxGroupCmds :
         \E cmds \in [1..n -> GroupCmdPool] :
            \E ops \in [1..(n - 1) -> Ops] :
               \E lo \in 1..(n - 1) :
                  \E hi \in {lo + 1} :
                     /\ \A k \in 1..(n - 1) : (k < lo \/ k >= hi) => ops[k] \in ListOps
                     /\ written = [cmds |-> cmds, ops |-> ops, group |-> <<lo, hi>>]
                     /\ command_str = GroupRender(cmds, ops, lo, hi)
    /\ env = <<>>
    /\ cwd = <<>>
    /\ pc = "ready"
    /\ mode = "none"
    /\ result = [stdout |-> <<>>, stderr |-> <<>>, rc |-> 0]
    /\ log = <<>>
    /\ tmp_free = Len(written.cmds)
    /\ deadline = 0
    /\ NoCall

GroupSpec == GroupInit /\ [][Next]_vars

\* The tests' normalize_output: the stripped non-blank lines of a text,
\* joined by one space each.
RECURSIVE NonBlankLines(_)
NonBlankLines(lines) ==
    IF lines = <<>> THEN <<>>
    ELSE IF Strip(Head(lines)) = <<>> THEN NonBlankLines(Tail(lines))
    ELSE <<Strip(Head(lines))>> \o NonBlankLines(Tail(lines))

normalize_output(output) ==
    IF output = <<>> THEN <<>> ELSE Join(NonBlankLines(Split(Strip(output), NL)), SP)

\* C24: execute on a command string that joins a parenthesised group and
\* other commands by list operators returns the exit code of the reference
\* shell run on the whole string, and the same stdout up to normalize_output.
C24_GroupMatchesShell ==
    (pc = "returned" /\ mode = "execute") =>
        /\ result.rc = ShellOf(written, TRUE).rc
        /\ normalize_output(result.stdout) = normalize_output(ShellOf(written, TRUE).out)

\* C24's case has happened: execute on e a && (x || e a) && e a has returned
\* what the shell returns, having run bash on the whole string.
C24_Witness ==
    /\ pc = "returned"
    /\ mode = "execute"
    /\ command_str = <<"e", " ", "a", " ", "&", "&", " ", "(", "x", " ", "|", "|", " ",
                       "e", " ", "a", ")", " ", "&", "&", " ", "e", " ", "a">>
    /\ Len(Spawned(log)) = 1
    /\ Spawned(log)[1] = BashArgv(command_str)
    /\ result.rc = 0
    /\ normalize_output(result.stdout) = <<"a", " ", "o", " ", "a", " ", "a">>

(***************************************************************************)
(* Calls with an env mapping and a working directory at once: command      *)
(* strings of up to MaxFrameCmds commands, with or without env additions,  *)
(* cwd None, a directory, or a path that is no directory.                  *)
(***************************************************************************)

MaxFrameCmds == 2

FrameCmdPool ==
    { <<W(<<"t">>)>>,
      <<W(<<"x">>)>>,
      <<W(<<"n">>)>>,
      <<W(<<"c">>)>>,
      <<W(<<"e">>), W(<<"$", "X">>)>>,
      <<W(<<"e">>), Q(<<"(", ")">>)>> }

FrameInit ==
    /\ \E n \in 1..MaxFrameCmds :
         \E cmds \in [1..n -> FrameCmdPool] :
            \E ops \in [1..(n - 1) -> Ops] :
               /\ written = [cmds |-> cmds, ops |-> ops]
               /\ command_str = Render(cmds, ops)
    /\ env \in EnvPool
    /\ cwd \in CwdPool
    /\ pc = "ready"
    /\ mode = "none"
    /\ result = [stdout |-> <<>>, stderr |-> <<>>, rc |-> 0]
    /\ log = <<>>
    /\ tmp_free = Len(written.cmds)
    /\ deadline = 0
    /\ NoCall

FrameSpec == FrameInit /\ [][Next]_vars

\* Every process of the log was started in the caller's cwd with the
\* caller's env additions.
StartedWithCallersFrame(lg) ==
    \A i \in 1..Len(lg) : lg[i].ev = "spawn" => (lg[i].cwd = cwd /\ lg[i].env = env)

\* C25: a call leaves the caller's env mapping and cwd as they were, on
\* every path, and every process it starts, at any depth of the recursion,
\* is given that cwd and those env additions.
C25_FrameReadOnly ==
    /\ [][env' = env /\ cwd' = cwd]_vars
    /\ [](StartedWithCallersFrame(log))

\* C25's case has happened: a call with env additions and a cwd has gone
\* through a list of two commands and started a process for each.
C25_Witness ==
    /\ pc = "returned"
    /\ env # <<>>
    /\ cwd = <<"/", "d">>
    /\ written.ops \in {<<AndOp>>, <<SeqOp>>}
    /\ Len(Spawned(log)) = 2
    /\ StartedWithCallersFrame(log)

(***************************************************************************)
(* Calls by a caller with a deadline: command strings of up to             *)
(* MaxDeadlineCmds commands, some of them sleeping, and a caller that      *)
(* allows the call up to MaxDeadline ticks.  Neither entry point has a     *)
(* parameter for a deadline: the call is the same call.                    *)
(***************************************************************************)

MaxDeadlineCmds == 2
MaxDeadline == 3

DeadlineCmdPool ==
    { <<W(<<"t">>)>>,
      <<W(<<"x">>)>>,
      <<W(<<"s">>)>>,
      <<W(<<"e">>), W(<<"a">>)>> }

DeadlineInit ==
    /\ \E n \in 1..MaxDeadlineCmds :
         \E cmds \in [1..n -> DeadlineCmdPool] :
            \E ops \in [1..(n - 1) -> Ops] :
               /\ written = [cmds |-> cmds, ops |-> ops]
               /\ command_str = Render(cmds, ops)
    /\ env = <<>>
    /\ cwd = <<>>
    /\ pc = "ready"
    /\ mode = "none"
    /\ result = [stdout |-> <<>>, stderr |-> <<>>, rc |-> 0]
    /\ log = <<>>
    /\ tmp_free = Len(written.cmds)
    /\ deadline \in 0..MaxDeadline
    /\ NoCall

DeadlineSpec == DeadlineInit /\ [][Next]_vars

\* The time the processes of a sequence of argv take, one after the other.
RECURSIVE TimeOf(_)
TimeOf(argvs) ==
    IF argvs = <<>> THEN 0 ELSE Duration(Head(argvs)) + TimeOf(Tail(argvs))

\* The time the call has spent waiting for the processes it started: each
\* was waited for to its exit before the next was started.
Elapsed == TimeOf(Spawned(log))

\* The exit codes of the outcomes a call has without a deadline.
OrdinaryCodes == {0, 1, 2, 127}

\* C26: a call by a caller whose deadline is shorter than the time the
\* commands of the string take has run no process past the deadline and
\* returns a timeout outcome, an exit code no other outcome has.
C26_DeadlineTerminates ==
    (pc = "returned" /\ deadline # 0 /\ TimeOf(Whole.spawns) > deadline) =>
        /\ Elapsed <= deadline
        /\ result.rc \notin OrdinaryCodes

\* What the call does whatever the deadline: it waits for every process it
\* started until the process exits, and returns an ordinary exit code.
C26_RunsToCompletion ==
    pc = "returned" => (AllWaited(log) /\ result.rc \in OrdinaryCodes)

\* The string as written is a op1 b op2 c of plain words, without pipes.
ThreeJoinedBy(op1, op2) ==
    /\ pc = "returned"
    /\ AllPlain
    /\ Len(written.cmds) = 3
    /\ written.ops = <<op1, op2>>

\* Command c, the third, was executed last and its exit code is reported.
ThirdDecides ==
    /\ IsSuffix(Single(3).spawns, Spawned(log))
    /\ result.rc = Single(3).rc

\* C27: in a && b ; c and in a && b || c with a exiting nonzero, and in
\* a || b ; c with a exiting 0, only b is skipped: c is executed and its exit
\* code is the one reported.
C27_SkipsOnlyRightOperand ==
    /\ (ThreeJoinedBy(AndOp, SeqOp) /\ Single(1).rc # 0) => ThirdDecides
    /\ (ThreeJoinedBy(AndOp, OrOp) /\ Single(1).rc # 0) => ThirdDecides
    /\ (ThreeJoinedBy(OrOp, SeqOp) /\ Single(1).rc = 0) => ThirdDecides

\* The same when the other operator comes first: in a ; b && c with b
\* exiting 0 and in a || b && c with a exiting 0, c is executed and its exit
\* code is the one reported.
C27_SkipsOnlyRightOperand_Reversed ==
    /\ (ThreeJoinedBy(SeqOp, AndOp) /\ Single(2).rc = 0) => ThirdDecides
    /\ (ThreeJoinedBy(OrOp, AndOp) /\ Single(1).rc = 0) => ThirdDecides

\* The commands of the string as written are plain and pairwise different,
\* so that a process tells which command it belongs to.
DistinctPlain ==
    /\ AllPlain
    /\ \A i, j \in 1..Len(written.cmds) : written.cmds[i] = written.cmds[j] => i = j

\* The command of the string as written a started process belongs to.
CmdIndex(argv) == CHOOSE i \in 1..Len(written.cmds) : ArgvOf(written.cmds[i]) = argv

\* Every process of the log has exited (communicate() has returned for it)
\* before the next one is started: no two are alive together.
OneAtATime(lg) ==
    \A i \in 1..Len(lg) :
        lg[i].ev = "spawn" =>
            /\ i < Len(lg)
            /\ lg[i + 1].ev = "wait"
            /\ lg[i + 1].argv = lg[i].argv

\* C28: for every list left op right of the string as written, no process
\* of left is started after a process of right, and each process has exited
\* before the next is started: the processes are started one at a time, in
\* the order of their commands.
C28_LeftBeforeRight ==
    (pc = "returned" /\ DistinctPlain /\ NoPipes) =>
        /\ OneAtATime(log)
        /\ \A i, j \in 1..Len(Spawned(log)) :
              i < j => CmdIndex(Spawned(log)[i]) <= CmdIndex(Spawned(log)[j])

\* C28 for command strings without ||.
C28_LeftBeforeRight_NoOr ==
    (\A i \in 1..Len(written.ops) : written.ops[i] # OrOp) => C28_LeftBeforeRight

\* Whatever the command string, no two processes are alive together.
C28_OneAtATime == OneAtATime(log)

(***************************************************************************)
(* Calls on a host short of room for temporary files: command strings of   *)
(* up to MaxTmpCmds commands, a host with room for fewer temporary files   *)
(* than the longest pipeline needs, cwd None or a path that is no          *)
(* directory.                                                               *)
(***************************************************************************)

MaxTmpCmds == 3

TmpCmdPool ==
    { <<W(<<"c">>)>>,
      <<W(<<"n">>)>>,
      <<W(<<"e">>), W(<<"a">>)>> }

TmpInit ==
    /\ \E n \in 1..MaxTmpCmds :
         \E cmds \in [1..n -> TmpCmdPool] :
            \E ops \in [1..(n - 1) -> Ops] :
               /\ written = [cmds |-> cmds, ops |-> ops]
               /\ command_str = Render(cmds, ops)
    /\ env = <<>>
    /\ cwd \in {<<>>, <<"/", "g">>}
    /\ pc = "ready"
    /\ mode = "none"
    /\ result = [stdout |-> <<>>, stderr |-> <<>>, rc |-> 0]
    /\ log = <<>>
    /\ tmp_free \in 0..(MaxTmpCmds - 1)
    /\ deadline = 0
    /\ NoCall

TmpSpec == TmpInit /\ [][Next]_vars

\* The temporary files that exist after the events of a log, given those
\* that existed before.
RECURSIVE FilesAfter(_, _)
FilesAfter(lg, files) ==
    IF lg = <<>> THEN files
    ELSE IF Head(lg).ev = "mktemp" THEN FilesAfter(Tail(lg), files \cup {Head(lg).file})
    ELSE IF Head(lg).ev = "unlink" THEN FilesAfter(Tail(lg), files \ {Head(lg).file})
    ELSE FilesAfter(Tail(lg), files)

C29_OtherPaths ==
    /\ pc = "returned"
    /\ IsPipeline
    /\ \E i \in 1..Len(log) : log[i].ev = "mktemp"
    /\ FilesAfter(log, {}) = {}
    /\ \/ result.rc = 0 /\ Len(Spawned(log)) = Len(written.cmds)
       \/ result.rc = 127 /\ Len(Spawned(log)) < Len(written.cmds)
       \/ cwd # <<>> /\ result.rc = 1 /\ Spawned(log) = <<>>

(***************************************************************************)
(* Calls with operators in the values of env: command strings of up to     *)
(* MaxInjectCmds commands without parentheses that refer to the variable   *)
(* X, and env mappings whose value for X has blanks or an operator.        *)
(***************************************************************************)

MaxInjectCmds == 2

InjectCmdPool ==
    { <<W(<<"t">>)>>,
      <<W(<<"x">>)>>,
      <<W(<<"c">>)>>,
      <<W(<<"e">>), W(<<"$", "X">>)>>,
      <<W(<<"e">>), W(<<"$", "{", "X", "}">>), W(<<"a">>)>> }

InjectValues ==
    { <<"a", " ", "b">>,
      <<"&", "&">>,
      <<"|", "|">>,
      <<";", " ", "x">>,
      <<"|", " ", "c">> }

InjectEnvPool == {<<>>} \cup { <<[k |-> <<"X">>, v |-> v]>> : v \in InjectValues }

InjectInit ==
    /\ \E n \in 1..MaxInjectCmds :
         \E cmds \in [1..n -> InjectCmdPool] :
            \E ops \in [1..(n - 1) -> Ops] :
               /\ written = [cmds |-> cmds, ops |-> ops]
               /\ command_str = Render(cmds, ops)
    /\ env \in InjectEnvPool
    /\ cwd = <<>>
    /\ pc = "ready"
    /\ mode = "none"
    /\ result = [stdout |-> <<>>, stderr |-> <<>>, rc |-> 0]
    /\ log = <<>>
    /\ tmp_free = Len(written.cmds)
    /\ deadline = 0
    /\ NoCall

InjectSpec == InjectInit /\ [][Next]_vars

\* Two logs show the same structure: the same events in the same order, the
\* processes wired the same way, each with the same program and the same
\* number of arguments, and the same text in every argument that has no
\* variable reference in base.
SameStructure(lg, base) ==
    /\ Len(lg) = Len(base)
    /\ \A i \in 1..Len(lg) :
          /\ lg[i].ev = base[i].ev
          /\ lg[i].stdin = base[i].stdin
          /\ lg[i].stdout = base[i].stdout
          /\ lg[i].file = base[i].file
          /\ Len(lg[i].argv) = Len(base[i].argv)
          /\ \A j \in 1..Len(lg[i].argv) :
                ~Contains(base[i].argv[j], <<"$">>) => lg[i].argv[j] = base[i].argv[j]

\* C30: whatever env maps X to, the call goes through the same lists,
\* pipelines and commands, each with the same number of arguments, as the
\* same call without env, and only the arguments written with the variable
\* differ.
C30_EnvKeepsStructure ==
    pc = "returned" =>
        SameStructure(log, ExecuteStr(mode, command_str, cwd, <<>>).log)

\* C30's case has happened: with X mapped to "; x", e $X && t has started
\* echo with the one argument "; x" and then t, and nothing else.
C30_Witness ==
    /\ pc = "returned"
    /\ env = <<[k |-> <<"X">>, v |-> <<";", " ", "x">>]>>
    /\ written.cmds = <<<<W(<<"e">>), W(<<"$", "X">>)>>, <<W(<<"t">>)>>>>
    /\ written.ops = <<AndOp>>
    /\ Spawned(log) = <<<<<<"e">>, <<";", " ", "x">>>>, <<<<"t">>>>>>

(***************************************************************************)
(* The calls execute / aexecute make on themselves, one step at a time:    *)
(* command strings of up to MaxTermCmds commands, some of them blank,      *)
(* joined by &&, || and ;.  A call on a string with one of these operators *)
(* splits it and loops over the parts, calling itself on each part that is *)
(* not blank; the || loop that ends without a success calls itself once    *)
(* more on the last part.  Every other call starts its processes, waits    *)
(* for them and returns.                                                   *)
(***************************************************************************)

MaxTermCmds == 3

\* A command without a word is written as nothing: a blank part.
TermCmdPool ==
    { <<>>,
      <<W(<<"t">>)>>,
      <<W(<<"x">>)>>,
      <<W(<<"e">>), W(<<"a">>)>> }

TermOps == {AndOp, OrOp, SeqOp}

TermInit ==
    /\ \E n \in 1..MaxTermCmds :
         \E cmds \in [1..n -> TermCmdPool] :
            \E ops \in [1..(n - 1) -> TermOps] :
               /\ written = [cmds |-> cmds, ops |-> ops]
               /\ command_str = Render(cmds, ops)
    /\ env = <<>>
    /\ cwd = <<>>
    /\ pc = "ready"
    /\ mode = "none"
    /\ result = [stdout |-> <<>>, stderr |-> <<>>, rc |-> 0]
    /\ log = <<>>
    /\ tmp_free = Len(written.cmds)
    /\ deadline = 0
    /\ NoCall

\* The operator whose branch the body takes on s: the first of &&, || and ;
\* that s contains, or <<>> when it contains none.
BranchOp(s) ==
    IF Contains(s, AndOp) THEN AndOp
    ELSE IF Contains(s, OrOp) THEN OrOp
    ELSE IF Contains(s, SeqOp) THEN SeqOp
    ELSE <<>>

\* The body on s reaches one of the three loops over parts.
Splits(s) == Strip(s) # <<>> /\ ~HasParens(s) /\ BranchOp(s) # <<>>

\* The locals of a call on s at the start of its loop over the parts.
Frame(s) ==
    [ s       |-> s,
      op      |-> BranchOp(s),
      parts   |-> Split(s, BranchOp(s)),
      last    |-> Split(s, BranchOp(s))[Len(Split(s, BranchOp(s)))],
      outs    |-> <<>>,
      errs    |-> <<>>,
      last_rc |-> 0,
      lg      |-> <<>>,
      again   |-> FALSE ]

Top == stack[Len(stack)]
Popped == SubSeq(stack, 1, Len(stack) - 1)
WithTop(f) == [stack EXCEPT ![Len(stack)] = f]

\* The caller calls execute or aexecute on command_str.
Start ==
    /\ pc = "ready"
    /\ \E m \in {"execute", "aexecute"} : mode' = m
    /\ arg' = command_str
    /\ pc' = "called"
    /\ UNCHANGED <<command_str, env, cwd, written, result, log, tmp_free, deadline,
                   stack, ret, calls>>

\* A call on a string that reaches no loop: the blank string, the string
\* handed to bash, the string that is parsed and run.
Leaf ==
    /\ pc = "called"
    /\ ~Splits(arg)
    /\ ret' = ExecuteStr(mode, arg, cwd, env)
    /\ pc' = "returning"
    /\ UNCHANGED <<command_str, env, cwd, written, mode, result, log, tmp_free,
                   deadline, stack, arg, calls>>

\* A call on a string with &&, || or ;: it splits the string and enters its
\* loop.
Enter ==
    /\ pc = "called"
    /\ Splits(arg)
    /\ stack' = Append(stack, Frame(arg))
    /\ pc' = "looping"
    /\ UNCHANGED <<command_str, env, cwd, written, mode, result, log, tmp_free,
                   deadline, arg, ret, calls>>

\* The loop passes over a blank part.
Skip ==
    /\ pc = "looping"
    /\ Top.parts # <<>>
    /\ Strip(Head(Top.parts)) = <<>>
    /\ stack' = WithTop([Top EXCEPT !.parts = Tail(@)])
    /\ UNCHANGED <<command_str, env, cwd, written, pc, mode, result, log, tmp_free,
                   deadline, arg, ret, calls>>

\* The loop calls execute / aexecute on its next part, stripped.
Recurse ==
    /\ pc = "looping"
    /\ Top.parts # <<>>
    /\ Strip(Head(Top.parts)) # <<>>
    /\ arg' = Strip(Head(Top.parts))
    /\ stack' = WithTop([Top EXCEPT !.parts = Tail(@)])
    /\ calls' = calls + 1
    /\ pc' = "called"
    /\ UNCHANGED <<command_str, env, cwd, written, mode, result, log, tmp_free,
                   deadline, ret>>

\* The || loop has ended without a success: the call on the last part.
Again ==
    /\ pc = "looping"
    /\ Top.parts = <<>>
    /\ Top.op = OrOp
    /\ arg' = Strip(Top.last)
    /\ stack' = WithTop([Top EXCEPT !.again = TRUE])
    /\ calls' = calls + 1
    /\ pc' = "called"
    /\ UNCHANGED <<command_str, env, cwd, written, mode, result, log, tmp_free,
                   deadline, ret>>

\* The && loop or the ; loop has ended: the call returns what it collected.
Leave ==
    /\ pc = "looping"
    /\ Top.parts = <<>>
    /\ Top.op # OrOp
    /\ ret' = R(Top.last_rc, Join(Top.outs, NL), Top.errs, Top.lg)
    /\ stack' = Popped
    /\ pc' = "returning"
    /\ UNCHANGED <<command_str, env, cwd, written, mode, result, log, tmp_free,
                   deadline, arg, calls>>

\* What the loop of frame f does with the triple r of the call it made:
\* [f |-> its locals afterwards, done |-> whether it returns, r |-> what it
\* returns].
AfterCall(f, r) ==
    IF f.op = AndOp
    THEN IF r.rc = 0
         THEN [done |-> FALSE, r |-> r,
               f |-> [f EXCEPT !.outs = Append(@, Strip(r.out)),
                               !.errs = @ \o r.err, !.lg = @ \o r.log]]
         ELSE [done |-> TRUE, f |-> f,
               r |-> R(r.rc, Join(f.outs, NL), f.errs \o r.err, f.lg \o r.log)]
    ELSE IF f.op = OrOp
    THEN IF f.again \/ r.rc = 0
         THEN [done |-> TRUE, f |-> f, r |-> R(r.rc, r.out, r.err, f.lg \o r.log)]
         ELSE [done |-> FALSE, r |-> r, f |-> [f EXCEPT !.lg = @ \o r.log]]
    ELSE [done |-> FALSE, r |-> r,
          f |-> [f EXCEPT !.outs = IF Strip(r.out) # <<>>
                                   THEN Append(@, Strip(r.out)) ELSE @,
                          !.errs = @ \o r.err, !.last_rc = r.rc,
                          !.lg = @ \o r.log]]

\* A call made by a loop returns: the loop goes on.
Resume ==
    /\ pc = "returning"
    /\ stack # <<>>
    /\ ~AfterCall(Top, ret).done
    /\ stack' = WithTop(AfterCall(Top, ret).f)
    /\ pc' = "looping"
    /\ UNCHANGED <<command_str, env, cwd, written, mode, result, log, tmp_free,
                   deadline, arg, ret, calls>>

\* A call made by a loop returns and ends the loop: the && loop on a
\* failure, the || loop on a success or after its call on the last part.
Break ==
    /\ pc = "returning"
    /\ stack # <<>>
    /\ AfterCall(Top, ret).done
    /\ ret' = AfterCall(Top, ret).r
    /\ stack' = Popped
    /\ UNCHANGED <<command_str, env, cwd, written, pc, mode, result, log, tmp_free,
                   deadline, arg, calls>>

\* The caller's call returns.
Return ==
    /\ pc = "returning"
    /\ stack = <<>>
    /\ Returned(ret)
    /\ pc' = "returned"
    /\ UNCHANGED <<command_str, env, cwd, written, mode, tmp_free, deadline,
                   stack, arg, ret, calls>>

TermNext ==
    Start \/ Leaf \/ Enter \/ Skip \/ Recurse \/ Again \/ Leave \/ Resume \/ Break
          \/ Return

\* A call that has been made does not stay at its start for ever: its body
\* runs, and every process it starts terminates.
Proceeds == []<>(pc # "called")

\* A call goes on as long as a step is left.  The step out of "called" is
\* Leaf or Enter, enabled exactly when pc = "called", so that weak fairness
\* of that step is Proceeds; the other steps are weakly fair as written.
TermSpec ==
    /\ TermInit
    /\ [][TermNext]_vars
    /\ WF_vars(Start \/ Skip \/ Recurse \/ Again \/ Leave \/ Resume \/ Break \/ Return)
    /\ Proceeds

\* Every call in progress was made on a string strictly shorter than the
\* string of the call that made it.
StrictlyShorter ==
    /\ \A i \in 1..(Len(stack) - 1) : Len(stack[i + 1].s) < Len(stack[i].s)
    /\ (pc = "called" /\ stack # <<>>) => Len(arg) < Len(Top.s)

\* C31: every call execute / aexecute makes on a part of a string split on
\* &&, || or ; is a call on a strictly shorter string than its caller's, and
\* the caller's call returns.
C31_Terminates == [](StrictlyShorter) /\ <>(pc = "returned")

\* C31's case: a call has returned after making five or more calls on parts.
C31_Witness == pc = "returned" /\ calls >= 5

\* What the steps add up to: the triple and the events of the body taken as
\* a whole.
C31_StepsAgreeWithBody ==
    pc = "returned" =>
        /\ result = [stdout |-> ExecuteStr(mode, command_str, cwd, env).out,
                     stderr |-> ExecuteStr(mode, command_str, cwd, env).err,
                     rc     |-> ExecuteStr(mode, command_str, cwd, env).rc]
        /\ log = ExecuteStr(mode, command_str, cwd, env).log

=============================================================================
